---------------------------- MODULE Spec2Model ----------------------------
(***************************************************************************)
(* qem-bot: the aggregate scheduling core (openqabot/types/aggregate.py)   *)
(* and the bot's main loop (openqabot/openqabot.py).                       *)
(*                                                                         *)
(* A Python string that the code takes apart or puts together (a build    *)
(* id, an incident identifier, a "product:version" value) is the sequence  *)
(* of its pieces; a dict is a function whose DOMAIN is the set of keys     *)
(* present; an Incident object is named by its number.                     *)
(***************************************************************************)
EXTENDS Integers, Sequences, FiniteSets, TLC

-----------------------------------------------------------------------------
(* Bounds of the model.                                                    *)

\* Calendar days the model runs through (1 January 2024 onwards).
MaxDay == 2
\* Largest counter suffix among the prior build ids handed to get_buildnr
\* when it is checked on its own (crosses the one-digit/two-digit border).
MaxGenCounter == 10
\* Largest counter suffix a build id recorded on the dashboard may carry.
MaxCounter == 2
\* Longest incident list handed to one loop iteration checked on its own.
MaxIncidents == 3
\* Longest incident list of a run of the bot (and of the earlier run that
\* left the prior state).
MaxRunIncidents == 1

-----------------------------------------------------------------------------
(* Strings.                                                                *)

Digits == <<"0", "1", "2", "3", "4", "5", "6", "7", "8", "9">>

IsDigit(c) == \E i \in 1..10 : Digits[i] = c

DigitVal(c) == (CHOOSE i \in 1..10 : Digits[i] = c) - 1

\* str(n) of a natural number: its decimal digits.
RECURSIVE IntToStr(_)
IntToStr(n) ==
    IF n < 10 THEN <<Digits[n + 1]>>
    ELSE IntToStr(n \div 10) \o <<Digits[(n % 10) + 1]>>

\* int(s) succeeds on a non-empty string of decimal digits.
IsNumeric(s) == Len(s) > 0 /\ \A i \in 1..Len(s) : IsDigit(s[i])

RECURSIVE StrToInt(_)
StrToInt(s) ==
    IF Len(s) = 0 THEN 0
    ELSE 10 * StrToInt(SubSeq(s, 1, Len(s) - 1)) + DigitVal(s[Len(s)])

\* s.startswith(p)
StartsWith(s, p) == Len(p) <= Len(s) /\ SubSeq(s, 1, Len(p)) = p

\* s.split(sep)[-1]: what follows the last sep, the whole of s without one.
SplitLast(s, sep) ==
    LET idx == {i \in 1..Len(s) : s[i] = sep}
    IN  IF idx = {} THEN s
        ELSE LET last == CHOOSE i \in idx : \A j \in idx : j <= i
             IN  SubSeq(s, last + 1, Len(s))

\* date.today().strftime("%Y%m%d") on day d of January 2024.
Strftime(d) ==
    <<"2", "0", "2", "4", "0", "1">>
        \o (IF d < 10 THEN <<"0">> \o IntToStr(d) ELSE IntToStr(d))

\* f"{build}-{counter}"
FormatBuild(build, counter) == build \o <<"-">> \o IntToStr(counter)

-----------------------------------------------------------------------------
(* Aggregate.get_buildnr                                                   *)

SameBuildExists == [kind |-> "SameBuildExists"]
ValueError == [kind |-> "ValueError"]
KeyError == [kind |-> "KeyError"]
Returned(b) == [kind |-> "return", build |-> b]

\* Faulty variant of get_buildnr: the counter not incremented.
get_buildnr_noinc(day, repohash, old_repohash, cur_build) ==
    LET today == Strftime(day)
    IN  IF StartsWith(cur_build, today) /\ repohash = old_repohash
        THEN SameBuildExists
        ELSE IF StartsWith(cur_build, today)
        THEN IF IsNumeric(SplitLast(cur_build, "-"))
             THEN Returned(FormatBuild(today,
                                       StrToInt(SplitLast(cur_build, "-"))))
             ELSE ValueError
        ELSE Returned(FormatBuild(today, 1))

\* get_buildnr(repohash, old_repohash, cur_build) called on day `day`.
get_buildnr(day, repohash, old_repohash, cur_build) ==
    LET today == Strftime(day)
        build == today
    IN  IF StartsWith(cur_build, today) /\ repohash = old_repohash
        THEN SameBuildExists
        ELSE IF StartsWith(cur_build, today)
        THEN IF IsNumeric(SplitLast(cur_build, "-"))
             THEN Returned(FormatBuild(build,
                                       StrToInt(SplitLast(cur_build, "-")) + 1))
             ELSE ValueError
        ELSE Returned(FormatBuild(build, 1))

-----------------------------------------------------------------------------
(* Dicts.                                                                  *)

\* d.get(k, False) is truthy: k is present with a non-empty value.
Truthy(d, k) == k \in DOMAIN d /\ d[k] # ""

\* a.update(b), as a value: b's entries win.
Update(a, b) ==
    [k \in DOMAIN a \cup DOMAIN b |-> IF k \in DOMAIN b THEN b[k] ELSE a[k]]

\* d[k] = v
Put(d, k, v) == [x \in DOMAIN d \cup {k} |-> IF x = k THEN v ELSE d[x]]

\* d without k
Drop(d, k) == [x \in DOMAIN d \ {k} |-> d[x]]

EmptyDict == [x \in {} |-> ""]

Range(s) == {s[i] : i \in 1..Len(s)}

-----------------------------------------------------------------------------
(* Channels, templates, incidents.                                         *)

\* Repos(product, version, arch): a named tuple, equal field by field.
Repos(product, version, arch) == <<product, version, arch>>

\* ProdVer(product, version)
ProdVer(product, version) == [product |-> product, version |-> version]

\* str(inc): the incident's number in decimal.
IncStr(inc) == IntToStr(inc)

\* s.split(":"): the pieces of s between the colons.
RECURSIVE Split(_, _)
Split(s, sep) ==
    LET idx == {i \in 1..Len(s) : s[i] = sep}
    IN  IF idx = {} THEN <<s>>
        ELSE LET first == CHOOSE i \in idx : \A j \in idx : i <= j
             IN  <<SubSeq(s, 1, first - 1)>>
                     \o Split(SubSeq(s, first + 1, Len(s)), sep)

\* Aggregate.normalize_repos: config["test_issues"], a list of
\* (issue, "product:version") pairs in the order of the file, becomes the
\* list of (issue, ProdVer) pairs.
normalize_repos(test_issues) ==
    [k \in 1..Len(test_issues) |->
        [issue    |-> test_issues[k].issue,
         template |-> ProdVer(Split(test_issues[k].value, ":")[1],
                              Split(test_issues[k].value, ":")[2])]]

OS == <<"SLES">>
SDK == <<"SDK">>
V15 == <<"15">>
V12 == <<"12">>

Archs == <<"x86_64", "aarch64">>

\* config["test_issues"] of the modelled product.
ConfigTestIssues ==
    << [issue |-> "OS_TEST_ISSUES",  value |-> OS \o <<":">> \o V15],
       [issue |-> "SDK_TEST_ISSUES", value |-> SDK \o <<":">> \o V15] >>

\* The incidents the dashboard knows: one in both templates' channels on
\* x86_64 and in one on aarch64; one on x86_64 only (and in a channel of
\* another version on aarch64); a livepatch one; a staging one.
Incidents ==
    { [id |-> 9, livepatch |-> FALSE, staging |-> FALSE,
       channels |-> {Repos(OS, V15, "x86_64"), Repos(OS, V15, "aarch64"),
                     Repos(SDK, V15, "x86_64")}],
      [id |-> 10, livepatch |-> FALSE, staging |-> FALSE,
       channels |-> {Repos(OS, V15, "x86_64"), Repos(SDK, V12, "aarch64")}],
      [id |-> 11, livepatch |-> TRUE, staging |-> FALSE,
       channels |-> {Repos(OS, V15, "x86_64"), Repos(OS, V15, "aarch64")}],
      [id |-> 12, livepatch |-> FALSE, staging |-> TRUE,
       channels |-> {Repos(OS, V15, "x86_64"), Repos(OS, V15, "aarch64")}] }

\* The Incident object with number id.
Incident(id) == CHOOSE i \in Incidents : i.id = id

\* The lists of at most n incidents (an incident may occur more than once).
RECURSIVE IncidentLists(_)
IncidentLists(n) ==
    IF n = 0 THEN {<< >>}
    ELSE IncidentLists(n - 1)
            \cup {Append(l, i.id) :
                    l \in {x \in IncidentLists(n - 1) : Len(x) = n - 1},
                    i \in Incidents}

-----------------------------------------------------------------------------
(* Channel matcher and repohash (Aggregate.__call__, lines 83-100).        *)

\* Faulty variant of valid_incidents: staging incidents let through.
valid_incidents_staging(incidents) ==
    SelectSeq(incidents, LAMBDA i : ~Incident(i).livepatch)

valid_incidents(incidents) ==
    SelectSeq(incidents,
              LAMBDA i : ~(Incident(i).livepatch \/ Incident(i).staging))

\* Faulty variant of matched: the architecture of the channel not compared.
matched_anyarch(template, arch, valid) ==
    SelectSeq(valid, LAMBDA inc :
        \E a \in Range(Archs) :
            Repos(template.product, template.version, a)
                \in Incident(inc).channels)

\* The incidents appended for one template, in the order of the list.
matched(template, arch, valid) ==
    SelectSeq(valid, LAMBDA inc :
        Repos(template.product, template.version, arch)
            \in Incident(inc).channels)

\* test_incidents after the loops: a defaultdict, so only the issues with a
\* match are keys.
test_incidents(test_issues, arch, incidents) ==
    LET valid == valid_incidents(incidents)
        hit == {k \in 1..Len(test_issues) :
                    matched(test_issues[k].template, arch, valid) # << >>}
    IN  [issue \in {test_issues[k].issue : k \in hit} |->
            LET k == CHOOSE k \in hit : test_issues[k].issue = issue
            IN  matched(test_issues[k].template, arch, valid)]

\* chain.from_iterable(test_incidents.values()): the lists one after the
\* other, in the order the keys were inserted (that of test_issues).
RECURSIVE chain_values(_, _, _)
chain_values(test_issues, ti, k) ==
    IF k > Len(test_issues) THEN << >>
    ELSE (IF test_issues[k].issue \in DOMAIN ti
          THEN ti[test_issues[k].issue] ELSE << >>)
            \o chain_values(test_issues, ti, k + 1)

\* s < t for strings of digits, as Python compares str.
RECURSIVE StrLess(_, _)
StrLess(s, t) ==
    IF Len(t) = 0 THEN FALSE
    ELSE IF Len(s) = 0 THEN TRUE
    ELSE IF s[1] # t[1] THEN DigitVal(s[1]) < DigitVal(t[1])
    ELSE StrLess(Tail(s), Tail(t))

\* sorted(S) of a set of strings.
RECURSIVE sorted(_)
sorted(S) ==
    IF S = {} THEN << >>
    ELSE LET m == CHOOSE x \in S : \A y \in S \ {x} : StrLess(x, y)
         IN  <<m>> \o sorted(S \ {m})

\* Faulty variant of repohash_input: the list handed over as it was matched, neither
\* deduplicated nor sorted.
repohash_input_raw(test_issues, ti) ==
    LET c == chain_values(test_issues, ti, 1)
    IN  [i \in 1..Len(c) |-> IncStr(c[i])]

\* sorted(set(str(inc) for inc in chain.from_iterable(...))): the argument
\* of merge_repohash.
repohash_input(test_issues, ti) ==
    sorted({IncStr(inc) : inc \in Range(chain_values(test_issues, ti, 1))})

\* merge_repohash: an opaque digest, here the merged sequence itself (one
\* digest per sequence).
merge_repohash(ids) == ids

-----------------------------------------------------------------------------
(* Settings resolvers (openqabot/pc_helper.py): each takes the settings    *)
(* and returns them with its output key found, empty or missing; `answer`  *)
(* is what the lookup came back with.                                      *)

TOOLS_QUERY == "PUBLIC_CLOUD_TOOLS_IMAGE_QUERY"
TOOLS_BASE == "PUBLIC_CLOUD_TOOLS_IMAGE_BASE"
IMAGE_REGEX == "PUBLIC_CLOUD_IMAGE_REGEX"
IMAGE_LOCATION == "PUBLIC_CLOUD_IMAGE_LOCATION"
PINT_QUERY == "PUBLIC_CLOUD_PINT_QUERY"
IMAGE_ID == "PUBLIC_CLOUD_IMAGE_ID"

Answers == {"found", "empty", "missing"}

Resolved(settings, key, answer) ==
    CASE answer = "found" -> Put(settings, key, "image")
      [] answer = "empty" -> Put(settings, key, "")
      [] OTHER            -> Drop(settings, key)

apply_pc_tools_image(settings, answer) == Resolved(settings, TOOLS_BASE, answer)

apply_publiccloud_regex(settings, answer) ==
    Resolved(settings, IMAGE_LOCATION, answer)

apply_publiccloud_pint_image(settings, answer) ==
    Resolved(settings, IMAGE_ID, answer)

-----------------------------------------------------------------------------
(* Aggregate objects.                                                      *)

\* Aggregate.__init__(product, settings, config)
Aggregate(product, settings, config) ==
    [product     |-> product,
     settings    |-> settings,
     flavor      |-> config.FLAVOR,
     archs       |-> config.archs,
     onetime     |-> config.onetime,
     test_issues |-> normalize_repos(config.test_issues)]

\* A settings value that collides with the keys the core sets itself.
CfgBuild == <<"c", "f", "g">>
CfgRepohash == << <<"c", "f", "g">> >>

TriggerKeys == {TOOLS_QUERY, IMAGE_REGEX, PINT_QUERY}

\* The base settings of the product: an ordinary key, and any of the three
\* trigger keys.
PlainSettings ==
    {[k \in {"DISTRI"} \cup ks |-> IF k = "DISTRI" THEN "sle" ELSE "query"] :
        ks \in SUBSET TriggerKeys}

\* Base settings that carry BUILD and REPOHASH themselves.
CollidingSettings ==
    [BUILD |-> CfgBuild, REPOHASH |-> CfgRepohash, DISTRI |-> "sle",
     FLAVOR |-> "cfg", ARCH |-> "cfg"]

Product == "SLES15"

AggregateOf(settings, onetime) ==
    Aggregate(Product, settings,
              [FLAVOR |-> "Server-DVD-Updates", archs |-> Archs,
               onetime |-> onetime, test_issues |-> ConfigTestIssues])

NoTriggers == [DISTRI |-> "sle"]
AllTriggers == [k \in {"DISTRI"} \cup TriggerKeys |->
                    IF k = "DISTRI" THEN "sle" ELSE "query"]

\* load_metadata: the worker lists of a run.  With and without onetime, the
\* settings with no trigger key, with all three, or colliding.
GateWorkers ==
    {<<AggregateOf(s, o)>> :
        s \in {NoTriggers, AllTriggers, CollidingSettings}, o \in BOOLEAN}

\* Without onetime, the settings with any of the trigger keys.
ResolverWorkers == {<<AggregateOf(s, FALSE)>> : s \in PlainSettings}

\* A second product, of one architecture.
Product2 == "SLES12"

SecondAggregate ==
    Aggregate(Product2, NoTriggers,
              [FLAVOR |-> "Server-DVD-Updates", archs |-> <<"x86_64">>,
               onetime |-> FALSE, test_issues |-> ConfigTestIssues])

\* The two products in one run.
DispatchWorkers == {<<AggregateOf(NoTriggers, FALSE), SecondAggregate>>}

DashboardKeys ==
    {<<p, Archs[i]>> : p \in {Product, Product2}, i \in 1..Len(Archs)}

-----------------------------------------------------------------------------
(* One iteration of the loop over self.archs (aggregate.py lines 73-195).  *)

\* ",".join(strs)
RECURSIVE Join(_)
Join(strs) ==
    IF Len(strs) = 0 THEN << >>
    ELSE IF Len(strs) = 1 THEN strs[1]
    ELSE strs[1] \o <<",">> \o Join(Tail(strs))

\* d.get(k, "") of a dashboard entry
GetStr(d, k) == IF k \in DOMAIN d THEN d[k] ELSE << >>

\* The reply of GET api/update_settings: a JSON array, a JSON object, or an
\* exception (old_jobs = None).
Reply(json) == [ok |-> TRUE, array |-> TRUE, json |-> json]
ObjectReply(obj) == [ok |-> TRUE, array |-> FALSE, object |-> obj]
ReadFailed == [ok |-> FALSE]

\* What the dashboard may answer while it holds `json` for the product and
\* architecture: that array, an array whose first element has no field, an
\* error object, or nothing (the request raises).
Replies(json) ==
    {ReadFailed, Reply(json), Reply(<<[product |-> Product]>>),
     ObjectReply([error |-> "unavailable"])}

\* `if old_jobs`
HasJobs(reply) ==
    /\ reply.ok
    /\ IF reply.array THEN reply.json # << >> ELSE DOMAIN reply.object # {}

\* The value an expression evaluated to.
Value(v) == [kind |-> "return", value |-> v]

\* old_jobs[0]: the first element of an array, a KeyError on an object.
old_jobs_first(reply) ==
    IF reply.array THEN Value(reply.json[1]) ELSE KeyError

\* The orders in which a set can be iterated.
Orders(S) ==
    {o \in [1..Cardinality(S) -> S] : \A i, j \in DOMAIN o : o[i] = o[j] => i = j}

\* Lines 127-130: the onetime gate.
onetime_skips_first(self, ignore_onetime, build) ==
    ~ignore_onetime /\ self.onetime

onetime_skips(self, ignore_onetime, build) ==
    ~ignore_onetime /\ (self.onetime /\ SplitLast(build, "-") # <<"1">>)

\* Faulty variant of resolves_in_place: the copy forgotten.
resolves_in_place_nocopy(self) == TRUE

\* Line 132, `settings = self.settings.copy()`: is the dict handed to the
\* resolvers, which may write to it, self.settings itself?
resolves_in_place(self) == FALSE

\* Lines 132-160: the resolver chain on a copy of the settings.  `ran` lists
\* the resolvers called, `failed` names the one whose output key is missing.
resolve_ignores_regex(self, answers) ==
    LET s0 == self.settings
        run1 == TOOLS_QUERY \in DOMAIN s0
        s1 == IF run1 THEN apply_pc_tools_image(s0, answers.tools) ELSE s0
        fail1 == run1 /\ ~Truthy(s1, TOOLS_BASE)
        run2 == ~fail1 /\ IMAGE_REGEX \in DOMAIN s1
        s2 == IF run2 THEN apply_publiccloud_regex(s1, answers.regex) ELSE s1
        fail2 == FALSE
        run3 == ~fail1 /\ ~fail2 /\ PINT_QUERY \in DOMAIN s2
        s3 == IF run3 THEN apply_publiccloud_pint_image(s2, answers.pint) ELSE s2
        fail3 == run3 /\ ~Truthy(s3, IMAGE_ID)
    IN  [settings |-> s3,
         ran |-> (IF run1 THEN <<"tools">> ELSE << >>)
                    \o (IF run2 THEN <<"regex">> ELSE << >>)
                    \o (IF run3 THEN <<"pint">> ELSE << >>),
         failed |-> IF fail1 THEN "tools" ELSE IF fail2 THEN "regex"
                    ELSE IF fail3 THEN "pint" ELSE "none"]

resolve(self, answers) ==
    LET s0 == self.settings
        run1 == TOOLS_QUERY \in DOMAIN s0
        s1 == IF run1 THEN apply_pc_tools_image(s0, answers.tools) ELSE s0
        fail1 == run1 /\ ~Truthy(s1, TOOLS_BASE)
        run2 == ~fail1 /\ IMAGE_REGEX \in DOMAIN s1
        s2 == IF run2 THEN apply_publiccloud_regex(s1, answers.regex) ELSE s1
        fail2 == run2 /\ ~Truthy(s2, IMAGE_LOCATION)
        run3 == ~fail1 /\ ~fail2 /\ PINT_QUERY \in DOMAIN s2
        s3 == IF run3 THEN apply_publiccloud_pint_image(s2, answers.pint) ELSE s2
        fail3 == run3 /\ ~Truthy(s3, IMAGE_ID)
    IN  [settings |-> s3,
         ran |-> (IF run1 THEN <<"tools">> ELSE << >>)
                    \o (IF run2 THEN <<"regex">> ELSE << >>)
                    \o (IF run3 THEN <<"pint">> ELSE << >>),
         failed |-> IF fail1 THEN "tools" ELSE IF fail2 THEN "regex"
                    ELSE IF fail3 THEN "pint" ELSE "none"]

\* Lines 162-168: the trigger settings, from the REPOHASH and BUILD set
\* before, the resolved settings and the matched incidents.
trigger_settings(self, arch, ci_url, repohash, build, settings, ti) ==
    LET o0 == IF ci_url # "" THEN [x \in {"__CI_JOB_URL"} |-> ci_url]
              ELSE EmptyDict
        o1 == Put(Put(o0, "REPOHASH", repohash), "BUILD", build)
        o2 == Update(o1, settings)
        o3 == Put(Put(Put(o2, "FLAVOR", self.flavor), "ARCH", arch),
                  "_OBSOLETE", 1)
    IN  Update(o3, [t \in DOMAIN ti |->
                        Join([i \in 1..Len(ti[t]) |-> IncStr(ti[t][i])])])

\* Faulty variant of qem_incidents: `=` for `+=`, the incidents of the last
\* template with matches only.
qem_incidents_last(self, ti) ==
    LET hit == {k \in 1..Len(self.test_issues) :
                    self.test_issues[k].issue \in DOMAIN ti}
    IN  IF hit = {} THEN {}
        ELSE LET last == CHOOSE k \in hit : \A j \in hit : j <= k
             IN  {IncStr(inc) : inc \in
                    Range(ti[self.test_issues[last].issue])}

\* Lines 169-174: the strings of set(all matched incidents).
qem_incidents(self, ti) ==
    {IncStr(inc) : inc \in Range(chain_values(self.test_issues, ti, 1))}

\* Line 176: `if not full_post["qem"]["incidents"]: continue`
no_incidents_never(incs) == FALSE

no_incidents(incs) == incs = << >>

\* Lines 179-195: the finished payload.  The two URL fields join one link per
\* incident of the set; they are kept as the set of incidents linked.
\* full_post["qem"]["settings"] is the dict full_post["openqa"] itself (see
\* QemSettings).
full_post(self, openqa, incs) ==
    LET o == Put(Put(openqa, "__DASHBOARD_INCIDENTS_URL", Range(incs)),
                 "__SMELT_INCIDENTS_URL", Range(incs))
    IN  [openqa |-> o,
         qem |-> [incidents |-> incs,
                  repohash  |-> o["REPOHASH"],
                  build     |-> o["BUILD"],
                  arch      |-> o["ARCH"],
                  product   |-> self.product],
         api |-> "api/update_settings"]

\* job["qem"]["settings"]: the same object as job["openqa"].
QemSettings(job) == job.openqa

\* Lines 83-130 of the iteration for `arch` on day `day`, given the
\* dashboard's reply: the matched incidents, the hash, the prior state, the
\* build id, the onetime gate.  outcome: what ended the iteration, or
\* "proceed".
decide(self, arch, incidents, ignore_onetime, day, reply) ==
    LET ti == test_incidents(self.test_issues, arch, incidents)
        handed == repohash_input(self.test_issues, ti)
        repohash == merge_repohash(handed)
        first == IF HasJobs(reply) THEN old_jobs_first(reply)
                 ELSE Value(EmptyDict)
        old_repohash == IF HasJobs(reply) /\ first.kind = "return"
                        THEN GetStr(first.value, "repohash") ELSE << >>
        old_build == IF HasJobs(reply) /\ first.kind = "return"
                     THEN GetStr(first.value, "build") ELSE << >>
        gen == IF first.kind # "return" THEN first
               ELSE get_buildnr(day, repohash, old_repohash, old_build)
    IN  [arch |-> arch, day |-> day, ti |-> ti, handed |-> handed,
         repohash |-> repohash, old_repohash |-> old_repohash,
         old_build |-> old_build, read_ok |-> reply.ok, reply |-> reply,
         gen |-> gen,
         ran |-> << >>,
         outcome |-> IF gen.kind # "return" THEN gen.kind
                     ELSE IF onetime_skips(self, ignore_onetime, gen.build)
                     THEN "onetime" ELSE "proceed"]

\* Lines 132-195 of an iteration that got past the gate, given the
\* resolvers' answers and the order `order` in which the set of matched
\* incidents is iterated.
assemble(self, d, ci_url, answers, order) ==
    LET res == resolve(self, answers)
        withran == [d EXCEPT !.ran = res.ran]
    IN  IF res.failed # "none"
        THEN [withran EXCEPT !.outcome = res.failed]
        ELSE IF no_incidents(order)
        THEN [withran EXCEPT !.outcome = "no_incidents"]
        ELSE [withran EXCEPT !.outcome = "appended"] @@
                [payload |-> full_post(self,
                    trigger_settings(self, d.arch, ci_url, d.repohash,
                                     d.gen.build, res.settings, d.ti),
                    order)]

-----------------------------------------------------------------------------
(* State.                                                                  *)

VARIABLES
    today,          \* the calendar day, as date.today() sees it
    dashboard,      \* per (product, arch): the JSON array GET returns
    pc,             \* "aggregate", "dispatch_qem", "dispatch_openqa",
                    \* "done", "crashed" (an exception left __call__)
    workers,        \* self.workers
    incidents,      \* self.incidents
    dry,            \* self.dry
    ignore_onetime, \* self.ignore_onetime
    ci,             \* self.ci ("" when CI_JOB_URL is not set)
    openqa,         \* bool(self.openqa)
    widx,           \* the worker OpenQABot.__call__ is at
    aidx,           \* the architecture Aggregate.__call__ is at
    ret,            \* Aggregate.__call__'s ret
    post,           \* OpenQABot.__call__'s post
    didx,           \* the job the dispatch loop is at
    sent,           \* history: the dashboard writes and runner triggers done
    obs,            \* history: what the last loop iteration of this run
                    \* read and decided
    produced,       \* history: per (product, arch), the last build id
                    \* get_buildnr returned, with its day, hash and incidents,
                    \* and whether a dry run got it from the record held
    recorded,       \* history: per (product, arch), the build ids the
                    \* dashboard was sent, and those it was sent twice
    call            \* a function applied on its own: arguments and result

vars == <<today, dashboard, pc, workers, incidents, dry, ignore_onetime, ci,
          openqa, widx, aidx, ret, post, didx, sent, obs, produced, recorded,
          call>>

runvars == <<workers, incidents, dry, ignore_onetime, ci, openqa>>

NoObs == [outcome |-> "none"]
NoCall == [fn |-> "none"]
NotProduced == [day |-> 0]
NothingRecorded == [once |-> {}, twice |-> {}]

\* What the dashboard returns for PUT data: the array whose first element
\* carries the record's repohash and build.
Recorded(qem) == << [repohash |-> qem.repohash, build |-> qem.build] >>

\* A counter suffix of today's recorded build that has reached the cap.
AtCap(json, day) ==
    /\ json # << >>
    /\ "build" \in DOMAIN json[1]
    /\ StartsWith(json[1].build, Strftime(day))
    /\ IsNumeric(SplitLast(json[1].build, "-"))
    /\ StrToInt(SplitLast(json[1].build, "-")) >= MaxCounter

-----------------------------------------------------------------------------
(* Actions.                                                                *)

\* The answers the resolvers can give: those of a resolver whose trigger key
\* the settings lack, or that comes after one that failed, are never looked
\* at and left "missing".
AnswerSets(self) ==
    LET t == TOOLS_QUERY \in DOMAIN self.settings
        r == IMAGE_REGEX \in DOMAIN self.settings
        p == PINT_QUERY \in DOMAIN self.settings
    IN  {a \in [tools : Answers, regex : Answers, pint : Answers] :
            /\ ~t => a.tools = "missing"
            /\ (~r \/ (t /\ a.tools # "found")) => a.regex = "missing"
            /\ (~p \/ (t /\ a.tools # "found") \/ (r /\ a.regex # "found"))
                    => a.pint = "missing"}

NoAnswers == [tools |-> "missing", regex |-> "missing", pint |-> "missing"]

\* Faulty variant of dispatches: the dry flag not looked at.
dispatches_dry(isdry, jobs) == jobs # << >>

\* OpenQABot.__call__, lines 59-69: are there jobs to write and to trigger?
\* None when dry (they are logged), none when post is empty.
dispatches(isdry, jobs) == ~isdry /\ jobs # << >>

\* Aggregate.__call__, one iteration of `for arch in self.archs`; after the
\* last one __call__ returns and OpenQABot.__call__ adds ret to post, goes on
\* to the next worker, or starts to dispatch (not dry) or logs the jobs and
\* ends (dry).  A ValueError of get_buildnr, a KeyError of old_jobs[0] are
\* caught nowhere.
AggregateStep ==
    /\ pc = "aggregate"
    /\ LET self == workers[widx]
           arch == self.archs[aidx]
           key  == <<self.product, arch>>
           last == aidx = Len(self.archs)
           over == last /\ widx = Len(workers)
       IN  \E reply \in Replies(dashboard[key]) :
           \E d \in {decide(self, arch, incidents, ignore_onetime, today,
                            reply)} :
           \E answers \in (IF d.outcome = "proceed"
                           THEN AnswerSets(self) ELSE {NoAnswers}),
              order \in (IF d.outcome = "proceed"
                         THEN Orders(qem_incidents(self, d.ti))
                         ELSE {<< >>}) :
           \E it \in {IF d.outcome = "proceed"
                      THEN assemble(self, d, ci, answers, order) ELSE d} :
           \E ret2 \in {IF it.outcome = "appended"
                        THEN Append(ret, it.payload) ELSE ret} :
             /\ obs' = [x \in DOMAIN it \ {"ti"} |-> it[x]]
                          @@ [product |-> self.product, prev |-> produced[key],
                              stored |-> dashboard[key],
                              incidents |-> incidents, answers |-> answers]
             /\ workers' =
                    IF resolves_in_place(self) /\ d.outcome = "proceed"
                    THEN [workers EXCEPT ![widx].settings =
                            resolve(self, answers).settings]
                    ELSE workers
             /\ produced' =
                    IF it.gen.kind = "return"
                    THEN [produced EXCEPT ![key] =
                            [day |-> today, build |-> it.gen.build,
                             repohash |-> it.repohash,
                             incidents |-> incidents,
                             dryread |-> dry /\ reply = Reply(dashboard[key])]]
                    ELSE produced
             /\ IF it.outcome \in {"ValueError", "KeyError"}
                THEN /\ pc' = "crashed"
                     /\ UNCHANGED <<widx, aidx, ret, post>>
                ELSE /\ ret' = IF last THEN << >> ELSE ret2
                     /\ post' = IF last THEN post \o ret2 ELSE post
                     /\ aidx' = IF last THEN 1 ELSE aidx + 1
                     /\ widx' = IF last /\ ~over THEN widx + 1 ELSE widx
                     /\ pc' = IF ~over THEN "aggregate"
                              ELSE IF dispatches(dry, post \o ret2)
                              THEN "dispatch_qem" ELSE "done"
    /\ UNCHANGED <<today, dashboard, incidents, dry, ignore_onetime, ci,
                   openqa, didx, sent, recorded, call>>

\* Faulty variant of PostQem: the exception of the PUT logged, not raised.
PostQem_swallows ==
    /\ pc = "dispatch_qem"
    /\ \E raised \in BOOLEAN :
          IF ~openqa
          THEN /\ pc' = "dispatch_openqa"
               /\ UNCHANGED <<dashboard, sent, recorded>>
          ELSE IF raised
          THEN /\ pc' = "dispatch_openqa"
               /\ UNCHANGED <<dashboard, sent, recorded>>
          ELSE /\ dashboard' =
                    [dashboard EXCEPT ![<<post[didx].qem.product,
                                          post[didx].qem.arch>>] =
                        Recorded(post[didx].qem)]
               /\ recorded' =
                    [recorded EXCEPT ![<<post[didx].qem.product,
                                         post[didx].qem.arch>>] =
                        [once |-> @.once \cup {post[didx].qem.build},
                         twice |-> @.twice \cup
                                    ({post[didx].qem.build} \cap @.once)]]
               /\ sent' = Append(sent, <<"qem", didx>>)
               /\ pc' = "dispatch_openqa"
    /\ UNCHANGED <<today, runvars, widx, aidx, ret, post, didx, obs, produced,
                   call>>

\* post_qem(job["qem"], job["api"]): nothing is written by an instance that is
\* not the main openQA; otherwise the PUT succeeds, or raises and ends the run.
PostQem ==
    /\ pc = "dispatch_qem"
    /\ \E raised \in BOOLEAN :
          IF ~openqa
          THEN /\ pc' = "dispatch_openqa"
               /\ UNCHANGED <<dashboard, sent, recorded>>
          ELSE IF raised
          THEN /\ pc' = "crashed"
               /\ UNCHANGED <<dashboard, sent, recorded>>
          ELSE /\ dashboard' =
                    [dashboard EXCEPT ![<<post[didx].qem.product,
                                          post[didx].qem.arch>>] =
                        Recorded(post[didx].qem)]
               /\ recorded' =
                    [recorded EXCEPT ![<<post[didx].qem.product,
                                         post[didx].qem.arch>>] =
                        [once |-> @.once \cup {post[didx].qem.build},
                         twice |-> @.twice \cup
                                    ({post[didx].qem.build} \cap @.once)]]
               /\ sent' = Append(sent, <<"qem", didx>>)
               /\ pc' = "dispatch_openqa"
    /\ UNCHANGED <<today, runvars, widx, aidx, ret, post, didx, obs, produced,
                   call>>

\* post_openqa(job["openqa"]), then the next job or the end of the run.
PostOpenqa ==
    /\ pc = "dispatch_openqa"
    /\ sent' = Append(sent, <<"openqa", didx>>)
    /\ IF didx = Len(post)
       THEN pc' = "done" /\ didx' = didx
       ELSE pc' = "dispatch_qem" /\ didx' = didx + 1
    /\ UNCHANGED <<today, dashboard, runvars, widx, aidx, ret, post, obs,
                   produced, recorded, call>>

\* Midnight passes.
NextDay ==
    /\ today < MaxDay
    /\ today' = today + 1
    /\ UNCHANGED <<dashboard, pc, runvars, widx, aidx, ret, post, didx, sent,
                   obs, produced, recorded, call>>

\* OpenQABot.__init__ of the next run of the bot: the incidents are loaded,
\* the arguments and the metadata read.  (The model starts no run once a
\* build recorded today carries the largest counter.)
Construct(workerLists, incidentLists, drys, ignores, cis, openqas) ==
    /\ pc \in {"done", "crashed"}
    /\ \A k \in DashboardKeys : ~AtCap(dashboard[k], today)
    /\ workers' \in workerLists
    /\ incidents' \in incidentLists
    /\ dry' \in drys
    /\ ignore_onetime' \in ignores
    /\ ci' \in cis
    /\ openqa' \in openqas
    /\ pc' = "aggregate"
    /\ widx' = 1 /\ aidx' = 1 /\ didx' = 1
    /\ ret' = << >> /\ post' = << >> /\ sent' = << >>
    /\ obs' = NoObs
    /\ UNCHANGED <<today, dashboard, produced, recorded, call>>

\* The state after OpenQABot.__init__.
Constructed(workerLists, incidentLists, drys, ignores, cis, openqas) ==
    /\ workers \in workerLists
    /\ incidents \in incidentLists
    /\ dry \in drys
    /\ ignore_onetime \in ignores
    /\ ci \in cis
    /\ openqa \in openqas
    /\ pc = "aggregate"
    /\ widx = 1 /\ aidx = 1 /\ didx = 1
    /\ ret = << >> /\ post = << >> /\ sent = << >>
    /\ obs = NoObs
    /\ produced = [k \in DashboardKeys |-> NotProduced]
    /\ recorded = [k \in DashboardKeys |-> NothingRecorded]
    /\ call = NoCall

-----------------------------------------------------------------------------
(* One run of the bot, from any recorded prior state.                      *)

\* The hash an earlier run recorded for `arch` from the incident list l.
HashOf(arch, l) ==
    merge_repohash(repohash_input(normalize_repos(ConfigTestIssues),
        test_incidents(normalize_repos(ConfigTestIssues), arch, l)))

\* A build id the dashboard may hold: one this bot wrote on some day, or one
\* with a suffix that is no number.
PriorBuilds ==
    {FormatBuild(Strftime(d), n) : d \in 1..MaxDay, n \in 1..MaxCounter}
        \cup {Strftime(d) \o <<"-", "x">> : d \in {1}}

\* The dashboard as earlier runs left it: nothing recorded, or for each
\* architecture that had incidents then, their hash and the build id.
PriorDashboards ==
    {[k \in DashboardKeys |-> << >>]}
        \cup {[k \in DashboardKeys |->
                IF HashOf(k[2], l) = << >> THEN << >>
                ELSE << [repohash |-> HashOf(k[2], l), build |-> b] >>] :
              l \in IncidentLists(MaxRunIncidents), b \in PriorBuilds}

Init ==
    /\ today \in 1..MaxDay
    /\ dashboard \in PriorDashboards
    /\ Constructed(GateWorkers, IncidentLists(MaxRunIncidents), {FALSE},
                   BOOLEAN, {"https://ci/job/1"}, {TRUE})

Next == AggregateStep \/ PostQem \/ PostOpenqa

Spec == Init /\ [][Next]_vars

-----------------------------------------------------------------------------
(* get_buildnr applied on its own.                                         *)

\* No run of the bot is going on.
Idle ==
    /\ pc = "idle"
    /\ workers = << >> /\ incidents = << >>
    /\ dry = FALSE /\ ignore_onetime = FALSE /\ ci = "" /\ openqa = TRUE
    /\ widx = 1 /\ aidx = 1 /\ didx = 1
    /\ ret = << >> /\ post = << >> /\ sent = << >>
    /\ obs = NoObs
    /\ produced = [k \in DashboardKeys |-> NotProduced]
    /\ recorded = [k \in DashboardKeys |-> NothingRecorded]
    /\ dashboard = [k \in DashboardKeys |-> << >>]

\* The hashes of the incident lists.
Hashes == {HashOf("x86_64", l) : l \in IncidentLists(MaxRunIncidents + 1)}

\* The prior build ids: none (day 0), or the one of day d with counter n.
GenPriors ==
    {[d |-> 0, n |-> 0]}
        \cup [d : 1..MaxDay, n : 1..MaxGenCounter]

PriorBuild(p) == IF p.d = 0 THEN << >> ELSE FormatBuild(Strftime(p.d), p.n)

GenInit ==
    /\ Idle
    /\ today \in 1..MaxDay
    /\ \E p \in GenPriors, h \in Hashes, oh \in Hashes :
          call = [fn |-> "get_buildnr", done |-> FALSE, prior |-> p,
                  repohash |-> h, old_repohash |-> oh,
                  cur_build |-> PriorBuild(p)]

GetBuildnrCall ==
    /\ call.fn = "get_buildnr" /\ ~call.done
    /\ call' = [call EXCEPT !.done = TRUE] @@
                 [result |-> get_buildnr(today, call.repohash,
                                         call.old_repohash, call.cur_build)]
    /\ UNCHANGED <<today, dashboard, pc, runvars, widx, aidx, ret, post, didx,
                   sent, obs, produced, recorded>>

SpecGen == GenInit /\ [][GetBuildnrCall]_vars

-----------------------------------------------------------------------------
(* One loop iteration applied on its own: no prior state, no onetime, no   *)
(* trigger key; the base settings with or without a BUILD and a REPOHASH.  *)

MatchInit ==
    /\ Idle
    /\ today = 1
    /\ \E a \in Range(Archs), l \in IncidentLists(MaxIncidents) :
          call = [fn |-> "iteration", done |-> FALSE, arch |-> a,
                  incidents |-> l]

IterationCall ==
    /\ call.fn = "iteration" /\ ~call.done
    /\ \E self \in {AggregateOf(st, FALSE) :
                        st \in {NoTriggers, CollidingSettings}} :
       \E d \in {decide(self, call.arch, call.incidents, FALSE, today,
                        Reply(<< >>))} :
       \E order \in Orders(qem_incidents(self, d.ti)) :
          call' = [call EXCEPT !.done = TRUE] @@
                    [self |-> self,
                     out |-> assemble(self, d, "", NoAnswers, order)]
    /\ UNCHANGED <<today, dashboard, pc, runvars, widx, aidx, ret, post, didx,
                   sent, obs, produced, recorded>>

SpecMatch == MatchInit /\ [][IterationCall]_vars

-----------------------------------------------------------------------------
(* One run of the bot over the settings with any of the trigger keys.      *)

ResolveInit ==
    /\ today = 1
    /\ dashboard = [k \in DashboardKeys |-> << >>]
    /\ Constructed(ResolverWorkers, IncidentLists(MaxRunIncidents), {FALSE},
                   {FALSE}, {""}, {TRUE})

SpecResolve == ResolveInit /\ [][Next]_vars

-----------------------------------------------------------------------------
(* Run after run of the bot, from an empty dashboard, over the days.       *)

RunsWorkers == {<<AggregateOf(NoTriggers, FALSE)>>}

\* The incident lists of the runs: those the matcher does not shorten.
RunsIncidents ==
    {l \in IncidentLists(MaxRunIncidents) : valid_incidents(l) = l}

RunsInit ==
    /\ today = 1
    /\ dashboard = [k \in DashboardKeys |-> << >>]
    /\ Constructed(RunsWorkers, RunsIncidents, {FALSE}, {FALSE}, {""},
                   {TRUE})

NextRun ==
    Construct(RunsWorkers, RunsIncidents, {FALSE}, {FALSE}, {""}, {TRUE})

RunsNext == AggregateStep \/ PostQem \/ PostOpenqa \/ NextDay \/ NextRun

SpecRuns == RunsInit /\ [][RunsNext]_vars

-----------------------------------------------------------------------------
(* One run of the bot over two products, as the main openQA instance or as *)
(* another.                                                                *)

DispatchInit ==
    /\ today = 1
    /\ dashboard = [k \in DashboardKeys |-> << >>]
    /\ Constructed(DispatchWorkers, RunsIncidents, {FALSE}, {FALSE}, {""},
                   BOOLEAN)

SpecDispatch == DispatchInit /\ [][Next]_vars

-----------------------------------------------------------------------------
(* Run after run of the bot within a day, dry or not.                      *)

DryInit ==
    /\ today = 1
    /\ dashboard = [k \in DashboardKeys |-> << >>]
    /\ Constructed(RunsWorkers, RunsIncidents, BOOLEAN, {FALSE}, {""}, {TRUE})

NextDryRun ==
    Construct(RunsWorkers, RunsIncidents, BOOLEAN, {FALSE}, {""}, {TRUE})

DryNext == AggregateStep \/ PostQem \/ PostOpenqa \/ NextDryRun

SpecDry == DryInit /\ [][DryNext]_vars

-----------------------------------------------------------------------------
(* Run after run of the bot for a product configured onetime.              *)

OnetimeWorkers == {<<AggregateOf(NoTriggers, TRUE)>>}

OnetimeInit ==
    /\ today = 1
    /\ dashboard = [k \in DashboardKeys |-> << >>]
    /\ Constructed(OnetimeWorkers, RunsIncidents, {FALSE}, {FALSE}, {""},
                   {TRUE})

NextOnetimeRun ==
    Construct(OnetimeWorkers, RunsIncidents, {FALSE}, {FALSE}, {""}, {TRUE})

OnetimeNext ==
    AggregateStep \/ PostQem \/ PostOpenqa \/ NextDay \/ NextOnetimeRun

SpecOnetime == OnetimeInit /\ [][OnetimeNext]_vars

-----------------------------------------------------------------------------
(* Properties.                                                             *)

\* The counter suffix of a build id.
Counter(build) == StrToInt(SplitLast(build, "-"))

\* b has the form <YYYYMMDD>-<N>, YYYYMMDD being day `day` and N >= 1.
IsBuildId(b, day) ==
    /\ Len(b) >= 10
    /\ SubSeq(b, 1, 8) = Strftime(day)
    /\ b[9] = "-"
    /\ IsNumeric(SubSeq(b, 10, Len(b)))
    /\ b[10] # "0"

\* C1: get_buildnr signals SameBuildExists exactly when the prior build id is
\* of today and the hash is the prior hash; otherwise it returns today's id
\* with the prior counter plus one when the prior build id is of today, and
\* with counter 1 in every other case, an empty prior build id included.
C1_GetBuildnr ==
    (call.fn = "get_buildnr" /\ call.done) =>
        call.result =
            IF call.prior.d = today /\ call.repohash = call.old_repohash
            THEN SameBuildExists
            ELSE IF call.prior.d = today
            THEN Returned(FormatBuild(Strftime(today), call.prior.n + 1))
            ELSE Returned(FormatBuild(Strftime(today), 1))

\* C1 witness: a prior build id of today with counter 9 and another hash
\* gave today's id with counter 10.
C1_Witness ==
    /\ call.fn = "get_buildnr" /\ call.done
    /\ call.prior = [d |-> today, n |-> 9]
    /\ call.repohash # call.old_repohash
    /\ call.result.kind = "return"
    /\ Counter(call.result.build) = 10

\* The test_issues of the modelled product, normalised.
TestIssues == normalize_repos(ConfigTestIssues)

\* No element of the sequence occurs twice.
NoDup(seq) == \A i, j \in 1..Len(seq) : seq[i] = seq[j] => i = j

\* The matched list of an issue, empty when the issue is no key.
MatchedList(ti, issue) == IF issue \in DOMAIN ti THEN ti[issue] ELSE << >>

\* C6: an incident of the list is in the matched list of a template for an
\* architecture if and only if it is neither livepatch nor staging and the
\* triple (template product, template version, architecture) is one of its
\* channels; the same product and version under another architecture does
\* not match.
C6_ChannelMatcher ==
    (call.fn = "iteration" /\ call.done) =>
        \A k \in 1..Len(TestIssues), i \in Incidents :
            i.id \in Range(MatchedList(call.out.ti, TestIssues[k].issue))
                <=> /\ i.id \in Range(call.incidents)
                    /\ ~i.livepatch
                    /\ ~i.staging
                    /\ <<TestIssues[k].template.product,
                         TestIssues[k].template.version, call.arch>>
                            \in i.channels

\* C6 witness: on aarch64, of the incidents 9, 10 (SLES 15 on x86_64 only)
\* and 11 (livepatch), only 9 matched the SLES 15 template.
C6_Witness ==
    /\ call.fn = "iteration" /\ call.done
    /\ call.arch = "aarch64"
    /\ Range(call.incidents) = {9, 10, 11}
    /\ MatchedList(call.out.ti, "OS_TEST_ISSUES") = <<9>>

\* C7: the matched list of every template, and the comma-joined value stored
\* under the template's name in the trigger settings, holds each incident at
\* most once, also when the incident list holds an incident twice.
C7_Deduplicated ==
    (call.fn = "iteration" /\ call.done) =>
        \A t \in DOMAIN call.out.ti :
            /\ NoDup(call.out.ti[t])
            /\ call.out.outcome = "appended"
                    => NoDup(Split(call.out.payload.openqa[t], ","))

\* The identifiers of the incidents of list l that are neither livepatch nor
\* staging and have a channel of some template under `arch`.
MatchedIds(l, arch) ==
    {IntToStr(i.id) : i \in
        {x \in Incidents :
            /\ x.id \in Range(l)
            /\ ~x.livepatch /\ ~x.staging
            /\ \E k \in 1..Len(TestIssues) :
                  <<TestIssues[k].template.product,
                    TestIssues[k].template.version, arch>> \in x.channels}}

\* C8: the sequence handed to merge_repohash holds exactly the identifiers
\* of the matched incidents that are neither livepatch nor staging, each
\* once and in ascending order; it, and the hash, are the same for every
\* incident list with the same incidents, however ordered or repeated.
C8_RepohashInput ==
    (call.fn = "iteration" /\ call.done) =>
        /\ Range(call.out.handed) = MatchedIds(call.incidents, call.arch)
        /\ \A i, j \in 1..Len(call.out.handed) :
              i < j => StrLess(call.out.handed[i], call.out.handed[j])
        /\ \A l \in IncidentLists(MaxIncidents) :
              Range(l) = Range(call.incidents) =>
                /\ repohash_input(TestIssues,
                        test_incidents(TestIssues, call.arch, l))
                     = call.out.handed
                /\ HashOf(call.arch, l) = call.out.repohash

\* C8 witness: from the list 10, 9, 9 on x86_64, where 9 matches both
\* templates, "10" and "9" were handed over, once each.
C8_Witness ==
    /\ call.fn = "iteration" /\ call.done
    /\ call.arch = "x86_64"
    /\ call.incidents = <<10, 9, 9>>
    /\ DOMAIN call.out.ti = {"OS_TEST_ISSUES", "SDK_TEST_ISSUES"}
    /\ call.out.handed = <<IntToStr(10), IntToStr(9)>>

\* The payloads of the run so far.
Payloads == post \o ret

\* The Aggregate the last iteration belonged to.
ObsSelf == CHOOSE w \in Range(workers) : w.product = obs.product

\* The last iteration got a build id from get_buildnr.
Generated == obs.outcome # "none" /\ obs.gen.kind = "return"

\* The build ids get_buildnr returns have the form <today>-<N>, N >= 1.
GeneratedBuildIdForm == Generated => IsBuildId(obs.gen.build, obs.day)

\* C2: every build id the generator returns, and every BUILD of an emitted
\* payload, has the form <YYYYMMDD>-<N> with the date of the run and N >= 1.
C2_BuildIdForm ==
    /\ Generated => IsBuildId(obs.gen.build, obs.day)
    /\ \A i \in 1..Len(Payloads) :
          IsBuildId(Payloads[i].openqa["BUILD"], today)

\* C3: per (product, architecture) the counter of the build ids produced
\* does not decrease within a day, and the first build id produced after the
\* day changed has counter 1.
C3_MonotonicCounter ==
    (Generated /\ obs.prev.day # 0) =>
        IF obs.prev.day = obs.day
        THEN Counter(obs.gen.build) >= Counter(obs.prev.build)
        ELSE Counter(obs.gen.build) = 1

\* The last iteration ran on the day and the incidents of the iteration that
\* last produced a build id for the same (product, architecture).
Rerun ==
    /\ obs.outcome # "none"
    /\ obs.prev.day = obs.day
    /\ obs.prev.incidents = obs.incidents

\* The dashboard held, when the last iteration read it, the build id and the
\* hash the earlier iteration produced.
EarlierRunStored ==
    obs.stored = << [repohash |-> obs.prev.repohash,
                     build |-> obs.prev.build] >>

\* C4: run again on the same date with the same incidents, the dashboard
\* holding what the earlier run recorded, the pipeline yields
\* SameBuildExists, never a build id.
C4_Idempotent ==
    (Rerun /\ EarlierRunStored) => obs.outcome = "SameBuildExists"

\* Such a second run yields SameBuildExists whenever the dashboard answered
\* its GET with what it holds.
IdempotentWhenRead ==
    (Rerun /\ EarlierRunStored /\ obs.reply = Reply(obs.stored))
        => obs.outcome = "SameBuildExists"

\* Such a second run, ended by SameBuildExists.
RerunIsDuplicate ==
    /\ Rerun
    /\ EarlierRunStored
    /\ obs.reply = Reply(obs.stored)
    /\ obs.handed # << >>
    /\ obs.outcome = "SameBuildExists"

\* C5: no payload of the list Aggregate.__call__ returns has an empty
\* dashboard-record incidents list.
C5_NoEmptyPayload ==
    \A i \in 1..Len(Payloads) : Payloads[i].qem.incidents # << >>

\* C5 witness: an architecture with no matched incident got a build id, got
\* past the gate and the resolvers, and no payload.
C5_Witness ==
    /\ obs.outcome = "no_incidents"
    /\ obs.handed = << >>
    /\ Len(obs.incidents) > 0
    /\ \A i \in 1..Len(Payloads) : Payloads[i].qem.arch # obs.arch

\* C9: an architecture that got a build id is skipped by the onetime gate,
\* with no payload and no error, exactly when onetime is set, ignore_onetime
\* is not and the counter of the build id is not 1; otherwise the iteration
\* goes on to the resolver chain.
C9_OnetimeGate ==
    Generated =>
        /\ obs.outcome = "onetime"
              <=> /\ ObsSelf.onetime
                  /\ ~ignore_onetime
                  /\ Counter(obs.gen.build) # 1
        /\ obs.outcome = "onetime" =>
              /\ \A i \in 1..Len(Payloads) : Payloads[i].qem.arch # obs.arch
              /\ obs.ran = << >>
              /\ obs.arch = Archs[1] => (pc = "aggregate" /\ aidx = 2)
        /\ obs.outcome # "onetime" =>
              obs.outcome \in {"tools", "regex", "pint", "no_incidents",
                               "appended"}

\* C9 witness: the gate skipped an architecture with matched incidents whose
\* build id has counter 2.
C9_Witness ==
    /\ Generated
    /\ obs.outcome = "onetime"
    /\ obs.handed # << >>
    /\ Counter(obs.gen.build) = 2

\* The resolution steps in the order of the chain, with their trigger keys.
Steps == <<"tools", "regex", "pint">>

StepNo(step) == CHOOSE n \in 1..3 : Steps[n] = step

TriggerOf(step) ==
    CASE step = "tools" -> TOOLS_QUERY
      [] step = "regex" -> IMAGE_REGEX
      [] step = "pint"  -> PINT_QUERY

\* C10: the resolution steps run at most once each, in the order tools
\* image, image regex, pint query, each only when its trigger key is
\* present; when a step that ran leaves its output key absent, no payload is
\* emitted for the architecture, the later steps do not run for it, and the
\* next architecture is processed.
C10_ResolverChain ==
    obs.outcome # "none" =>
        /\ \A i, j \in 1..Len(obs.ran) :
              i < j => StepNo(obs.ran[i]) < StepNo(obs.ran[j])
        /\ \A i \in 1..Len(obs.ran) :
              /\ TriggerOf(obs.ran[i]) \in DOMAIN ObsSelf.settings
              /\ obs.answers[obs.ran[i]] = "missing" =>
                    /\ obs.outcome = obs.ran[i]
                    /\ i = Len(obs.ran)
                    /\ \A p \in 1..Len(Payloads) :
                          Payloads[p].qem.arch # obs.arch
                    /\ obs.arch = Archs[1] => (pc = "aggregate" /\ aidx = 2)
        /\ obs.outcome \in {"tools", "regex", "pint", "no_incidents",
                            "appended"} =>
              \A n \in 1..3 :
                  (\E i \in 1..Len(obs.ran) : obs.ran[i] = Steps[n])
                      <=> /\ TriggerOf(Steps[n]) \in DOMAIN ObsSelf.settings
                          /\ \A i \in 1..Len(obs.ran) :
                                StepNo(obs.ran[i]) < n =>
                                    obs.answers[obs.ran[i]] = "found"

\* C10 witness: with the three trigger keys set and incidents matched on the
\* first architecture, the regex step left its key absent: the pint step did
\* not run, nothing was appended and the loop is at the second architecture.
C10_Witness ==
    /\ obs.outcome = "regex"
    /\ obs.answers.regex = "missing"
    /\ obs.ran = <<"tools", "regex">>
    /\ PINT_QUERY \in DOMAIN ObsSelf.settings
    /\ obs.handed # << >>
    /\ obs.arch = Archs[1]
    /\ ret = << >>
    /\ pc = "aggregate" /\ aidx = 2

\* The reply is none of the expected shape: the request raised, the JSON is
\* no array, the array is empty, or its first element has no repohash or no
\* build field.
Unexpected(reply) ==
    \/ ~reply.ok
    \/ ~reply.array
    \/ reply.json = << >>
    \/ ~({"repohash", "build"} \subseteq DOMAIN reply.json[1])

\* The iteration took the prior state to be empty and got the build id of
\* the day with counter 1.
TakenAsNoPriorState ==
    /\ obs.old_repohash = << >>
    /\ obs.old_build = << >>
    /\ obs.gen = Returned(FormatBuild(Strftime(obs.day), 1))

\* C11: when the dashboard read fails or the reply has an unexpected shape,
\* the prior state is taken to be empty, the architecture is processed
\* further and the build id generated for it has counter 1.
C11_FailOpen ==
    (obs.outcome # "none" /\ Unexpected(obs.reply)) => TakenAsNoPriorState

\* The same of the replies other than a JSON object: a failed request, an
\* empty array, a first element without the fields.
FailOpenOnArrays ==
    (/\ obs.outcome # "none"
     /\ Unexpected(obs.reply)
     /\ obs.reply.ok => obs.reply.array) => TakenAsNoPriorState

\* The loop went on from the first architecture to the second.
AtSibling == pc = "aggregate" /\ aidx = 2

\* C12: whatever happened while the first architecture was processed, the
\* loop goes on to its sibling: no exception ends the run.
C12_Containment ==
    (obs.outcome # "none" /\ obs.arch = Archs[1]) => AtSibling

\* The same of the iterations that end by SameBuildExists, at the onetime
\* gate, in a resolver, without incidents or with a payload.
ContainedOutcomes ==
    (/\ obs.outcome \notin {"none", "ValueError", "KeyError"}
     /\ obs.arch = Archs[1]) => AtSibling

C14_RecordAgrees ==
    (call.fn = "iteration" /\ call.done /\ call.out.outcome = "appended") =>
        LET p == call.out.payload
        IN  /\ QemSettings(p) = p.openqa
            /\ p.qem.repohash = p.openqa["REPOHASH"]
            /\ p.qem.build = p.openqa["BUILD"]
            /\ p.qem.arch = p.openqa["ARCH"]
            /\ p.qem.product = call.self.product
            /\ NoDup(p.qem.incidents)
            /\ Range(p.qem.incidents) = MatchedIds(call.incidents, call.arch)

\* C14 witness: from the list 9, 10, 9 on x86_64, 9 matched by both
\* templates and 10 by one, the record lists the two identifiers.
C14_Witness ==
    /\ call.fn = "iteration" /\ call.done
    /\ call.out.outcome = "appended"
    /\ call.arch = "x86_64"
    /\ call.incidents = <<9, 10, 9>>
    /\ Len(call.out.payload.qem.incidents) = 2
    /\ call.out.payload.qem.arch = "x86_64"
    /\ call.out.payload.qem.build = call.out.payload.openqa["BUILD"]

\* The dashboard held, when the last iteration read it, a record of the day
\* with build counter 1 for the product and architecture.
FirstBuildRecorded ==
    /\ obs.stored # << >>
    /\ obs.stored[1].build = FormatBuild(Strftime(obs.day), 1)

\* C15: with onetime set and ignore_onetime not, once the payload with build
\* counter 1 of the day is recorded for a product and architecture, no
\* iteration of that day emits a payload for them.
C15_FirstBuildOnly ==
    (/\ obs.outcome # "none"
     /\ ObsSelf.onetime /\ ~ignore_onetime
     /\ FirstBuildRecorded) => obs.outcome # "appended"

\* The same of the iterations the dashboard answered with the record it
\* holds.
FirstBuildOnlyWhenRead ==
    (/\ obs.outcome # "none"
     /\ ObsSelf.onetime /\ ~ignore_onetime
     /\ FirstBuildRecorded
     /\ obs.reply = Reply(obs.stored)) => obs.outcome # "appended"

\* With the first build recorded and read back, an incident update that
\* changed the hash was stopped at the gate.
UpdateStoppedAtGate ==
    /\ obs.outcome # "none"
    /\ FirstBuildRecorded
    /\ obs.reply = Reply(obs.stored)
    /\ obs.handed # << >>
    /\ obs.outcome = "onetime"

\* C16: no two payloads sent to the dashboard for the same product and
\* architecture carry the same build id, also when dashboard reads fail.
C16_UniqueBuildIds ==
    \A k \in DashboardKeys : recorded[k].twice = {}

\* C17: in an emitted payload BUILD is the build id get_buildnr returned
\* for the architecture, REPOHASH the merged hash of the matched incidents,
\* FLAVOR the Aggregate's flavor and ARCH the architecture, whatever keys the
\* settings carry.
C17_BaseFields ==
    obs.outcome = "appended" =>
        /\ obs.payload.openqa["BUILD"] = obs.gen.build
        /\ obs.payload.openqa["REPOHASH"] = obs.repohash
        /\ obs.payload.openqa["FLAVOR"] = ObsSelf.flavor
        /\ obs.payload.openqa["ARCH"] = obs.arch

\* The same of FLAVOR and ARCH alone.
FlavorAndArchKept ==
    obs.outcome = "appended" =>
        /\ obs.payload.openqa["FLAVOR"] = ObsSelf.flavor
        /\ obs.payload.openqa["ARCH"] = obs.arch

\* A payload from settings that carry the four keys.
CollidingPayload ==
    /\ obs.outcome = "appended"
    /\ ObsSelf.settings = CollidingSettings
    /\ obs.payload.openqa["ARCH"] = obs.arch

\* The run ended by an exception of the dashboard write of job didx.
WriteRaised ==
    pc = "crashed" /\ obs.outcome \notin {"none", "ValueError", "KeyError"}

\* C18: not dry, nothing is dispatched before the payloads of all products
\* are computed; then the jobs are dispatched in order, the dashboard write
\* of a job right before its runner trigger; when the write raises, the
\* runner is triggered neither for that job nor for a later one.
C18_DispatchOrder ==
    /\ pc = "aggregate" => sent = << >>
    /\ \A i \in 1..Len(sent) :
          /\ sent[i][2] \in 1..Len(post)
          /\ i > 1 => sent[i - 1][2] <= sent[i][2]
          /\ (sent[i][1] = "openqa" /\ openqa) =>
                (i > 1 /\ sent[i - 1] = <<"qem", sent[i][2]>>)
          /\ sent[i][1] = "openqa" =>
                \A j \in 1..Len(sent) : sent[j] = sent[i] => j = i
    /\ pc = "done" /\ ~dry =>
          \A n \in 1..Len(post) : \E i \in 1..Len(sent) :
              sent[i] = <<"openqa", n>>
    /\ WriteRaised =>
          \A i \in 1..Len(sent) : sent[i][1] = "openqa" => sent[i][2] < didx

\* C18 witness: three payloads of two products computed, the first written
\* and triggered, the write of the second raised.
C18_Witness ==
    /\ WriteRaised
    /\ Len(post) = 3
    /\ post[3].qem.product = Product2
    /\ didx = 2
    /\ sent = << <<"qem", 1>>, <<"openqa", 1>> >>

\* C19: a dry run writes nothing to the dashboard and triggers nothing, the
\* dashboard holds after it what it held when the run read it, and the run
\* repeated on what a dry run read gets the same build id and hash.
C19_DryRun ==
    /\ dry => (sent = << >> /\ pc \in {"aggregate", "done", "crashed"})
    /\ (dry /\ obs.outcome # "none") =>
          dashboard[<<obs.product, obs.arch>>] = obs.stored
    /\ (Rerun /\ obs.prev.dryread /\ obs.reply = Reply(obs.stored)) =>
          /\ obs.gen = Returned(obs.prev.build)
          /\ obs.repohash = obs.prev.repohash

\* C19 witness: a dry run over a recorded build, repeated dry: the same
\* payload again, nothing sent.
C19_Witness ==
    /\ dry
    /\ Rerun
    /\ obs.prev.dryread
    /\ obs.reply = Reply(obs.stored)
    /\ obs.stored # << >>
    /\ obs.outcome = "appended"
    /\ obs.payload.qem.build = obs.prev.build
    /\ sent = << >>

=============================================================================
